---- MODULE Spec2Model ----
(***************************************************************************)
(* terraform-provider-pgp, data source "decrypt" (pgp/data_decrypt.go).    *)
(*                                                                         *)
(* Each call of dataSourceDecryptRead is a little sequential process: its  *)
(* position is pc[c], its locals are the other variables at index c.  The  *)
(* byte strings the code handles are modelled symbolically, by what the    *)
(* library functions the code calls make of them (armor.Decode,            *)
(* openpgp.ReadEntity, openpgp.ReadMessage, ioutil.ReadAll, gzip,          *)
(* base64.StdEncoding).                                                    *)
(***************************************************************************)
EXTENDS Naturals, Sequences, FiniteSets

\* ------------------------------------------------------------------ bounds
\* Plaintexts are 0..MaxPlain, 0 being the empty byte string.
MaxPlain == 2
\* Key pairs are 1..NumKeys.
NumKeys == 2
\* Calls of dataSourceDecryptRead that may be in flight together.
NumCalls == 2

Calls == 1..NumCalls
Plain == 0..MaxPlain
Keys  == 1..NumKeys

\* ------------------------------------------------------- symbolic byte data
\* The bytes that come out of the OpenPGP layer (and the final plaintext):
\*   gz = "no"      the literal bytes of plaintext p (no gzip header)
\*   gz = "ok"      a well-formed gzip stream of plaintext p
\*   gz = "badbody" a gzip stream of p with a valid header whose deflate
\*                  data or trailer is corrupt
Payload == [gz : {"no", "ok", "badbody"}, p : Plain]

Lit(p) == [gz |-> "no", p |-> p]

\* []byte{} (lines 117..159) and a buffer decrypt has not returned yet.
Empty   == Lit(0)
NoBytes == [gz |-> "unset", p |-> 0]

\* A binary OpenPGP packet sequence:
\*   kind = "msg"   a message encrypted to the public key of pair `key`, its
\*                  literal data being `pay`; st = "trunc": the encrypted
\*                  data is cut short, so that reading the body faults
\*   kind = "key"   the private-key packets of pair `key`; prot: the secret
\*                  material is passphrase-protected
\*   kind = "junk"  bytes that are no packet sequence
\*   kind = "empty" no bytes at all
MsgPackets == [kind : {"msg"}, key : Keys, prot : {FALSE}, st : {"ok", "trunc"}, pay : Payload]
KeyPackets == [kind : {"key"}, key : Keys, prot : BOOLEAN, st : {"ok"}, pay : {Empty}]
Junk       == [kind |-> "junk", key |-> 0, prot |-> FALSE, st |-> "ok", pay |-> Empty]
NoPackets  == [kind |-> "empty", key |-> 0, prot |-> FALSE, st |-> "ok", pay |-> Empty]

\* A byte buffer as the code sees it (a string attribute, or decoded bytes):
\*   form = "armor"   an ASCII-armored block with type label `type`;
\*                    framing = "noend": the end marker line is missing
\*   form = "b64"     the standard base64 text of `data`
\*   form = "garbage" text that is neither
\*   form = "bin"     the binary packet sequence `data` itself
ArmorText(t, f, x) == [form |-> "armor", type |-> t, framing |-> f, data |-> x]
B64Text(x)  == [form |-> "b64", type |-> "", framing |-> "ok", data |-> x]
Garbage     == [form |-> "garbage", type |-> "", framing |-> "ok", data |-> Junk]
Bin(x)      == [form |-> "bin", type |-> "", framing |-> "ok", data |-> x]
NoBuf       == [form |-> "unset", type |-> "", framing |-> "ok", data |-> Junk]

\* Armor type labels: openpgp.PrivateKeyType, openpgp.PublicKeyType, the
\* label line 119 asks for, and the label standard tools give a message.
PrivateKeyType == "PGP PRIVATE KEY BLOCK"
PublicKeyType  == "PGP PUBLIC KEY BLOCK"
MessageType    == "Message"
PGPMessageType == "PGP MESSAGE"

\* ------------------------------------------------------------------ errors
\* An error value: the text the code puts in front (msg) and the library's
\* error it carries (cause).  A library error returned as is has msg = "".
ErrNil        == [msg |-> "nil", cause |-> "nil"]
LibErr(c)     == [msg |-> "", cause |-> c]
ErrorsNew(m)  == [msg |-> m, cause |-> ""]
Wrapf(m, e)   == [msg |-> m, cause |-> e.cause]

\* ------------------------------------------------- the libraries the code calls
\* An armor block: its type label and its body, a stream that is decoded as
\* it is read.  tail is what a reader gets after the last data byte: EOF, or
\* armor.ArmorCorrupt where the end marker line is missing.
NoBlock == [Type |-> "", Body |-> [data |-> Junk, tail |-> "EOF"]]

\* armor.Decode: finds the start line and the headers of the first block and
\* returns; io.EOF when there is no block.  It does not read the body, so a
\* block whose end marker is missing is returned like any other.
ArmorDecode(b) ==
    IF b.form = "armor"
    THEN [err |-> ErrNil,
          block |-> [Type |-> b.type,
                     Body |-> [data |-> b.data,
                               tail |-> IF b.framing = "noend" THEN "ArmorCorrupt" ELSE "EOF"]]]
    ELSE [err |-> LibErr("EOF"), block |-> NoBlock]

\* bytes.NewReader over a buffer handed to the packet reader as it is.
BytesReader(b) ==
    [data |-> IF b.form = "bin" THEN b.data ELSE Junk, tail |-> "EOF"]

\* A key entity; NoEntity is the nil *openpgp.Entity.
Entity   == [key : Keys, prot : BOOLEAN]
NoEntity == [key |-> 0, prot |-> FALSE]

\* openpgp.ReadEntity(packet.NewReader(body)): reads packets to the end of the
\* stream, so it meets the stream's tail.
ReadEntity(body) ==
    CASE body.data.kind = "empty" -> [err |-> LibErr("EOF"), entity |-> NoEntity]
      [] body.data.kind = "key" /\ body.tail = "ArmorCorrupt" ->
             [err |-> LibErr("ArmorCorrupt"), entity |-> NoEntity]
      [] body.data.kind = "key" ->
             [err |-> ErrNil, entity |-> [key |-> body.data.key, prot |-> body.data.prot]]
      [] OTHER -> [err |-> LibErr("StructuralError"), entity |-> NoEntity]

\* openpgp.MessageDetails, of which the code uses UnverifiedBody only.
NoMessage == [UnverifiedBody |-> [pay |-> NoBytes, st |-> "ok"]]

\* openpgp.ReadMessage(stream, keyring, nil, nil): the session key is
\* recovered with a key of the ring whose secret material is usable; there
\* is no prompt, so a protected or a foreign key is ErrKeyIncorrect.  It
\* stops at the encrypted data packet and never reads the stream's tail.
ReadMessage(stream, keyring) ==
    CASE stream.data.kind = "empty" -> [err |-> LibErr("EOF"), md |-> NoMessage]
      [] stream.data.kind = "msg" ->
             IF \E i \in 1..Len(keyring) :
                    keyring[i].key = stream.data.key /\ ~keyring[i].prot
             THEN [err |-> ErrNil,
                   md |-> [UnverifiedBody |-> [pay |-> stream.data.pay, st |-> stream.data.st]]]
             ELSE [err |-> LibErr("ErrKeyIncorrect"), md |-> NoMessage]
      [] OTHER -> [err |-> LibErr("StructuralError"), md |-> NoMessage]

\* ioutil.ReadAll(messageReader.UnverifiedBody): the bytes read, and the
\* fault of a body that is cut short.
ReadAllBody(body) ==
    IF body.st = "ok"
    THEN [err |-> ErrNil, data |-> body.pay]
    ELSE [err |-> LibErr("UnexpectedEOF"), data |-> body.pay]

\* gzip.NewReader: reads the header only.
GzipNewReader(b) ==
    CASE b.gz = "no" /\ b.p = 0 -> LibErr("EOF")
      [] b.gz = "no"            -> LibErr("gzip: invalid header")
      [] OTHER                  -> ErrNil

\* ioutil.ReadAll(gzip reader): the bytes inflated so far come back with the
\* error of a corrupt stream.
GzipReadAll(b) ==
    IF b.gz = "ok"
    THEN [err |-> ErrNil, data |-> Lit(b.p)]
    ELSE [err |-> LibErr("gzip: invalid checksum"), data |-> Lit(b.p)]

\* base64.StdEncoding.DecodeString.
Base64Decode(b) ==
    IF b.form = "b64"
    THEN [err |-> ErrNil, data |-> Bin(b.data)]
    ELSE [err |-> LibErr("CorruptInputError"), data |-> NoBuf]

\* fmt.Sprintf("%x", sha256(plaintext)).
Sha256Hex(b) == <<"sha256", b>>
NoId         == <<"unset", NoBytes>>

\* ------------------------------------------------------------------ inputs
\* What a configuration can put in the three attributes (schema, lines
\* 30..51): ciphertext_encoding is validated to be one of the two words.
KeyTexts ==
    {ArmorText(t, f, x) : t \in {PrivateKeyType, PublicKeyType},
                          f \in {"ok", "noend"},
                          x \in KeyPackets \cup {Junk, NoPackets}}
        \cup {Garbage}

CipherTexts ==
    {ArmorText(t, f, x) : t \in {MessageType, PGPMessageType, PublicKeyType},
                          f \in {"ok", "noend"},
                          x \in MsgPackets \cup {Junk, NoPackets}}
        \cup {B64Text(x) : x \in MsgPackets \cup {Junk, NoPackets}}
        \cup {Garbage}

Encodings == {"armored", "base64"}

ResourceData ==
    [private_key : KeyTexts, ciphertext : CipherTexts, ciphertext_encoding : Encodings]

NoData == [private_key |-> NoBuf, ciphertext |-> NoBuf, ciphertext_encoding |-> ""]

\* ------------------------------------------------------------------- state
VARIABLES
    pc,                \* where each call stands
    d,                 \* the attributes the call was given (schema.ResourceData)
    keyBlock,          \* block in getPrivateKeyPacket (line 93)
    privateKeyPacket,  \* line 59
    ciphertext,        \* line 65 / 72
    msgBlock,          \* block in decrypt (line 115)
    messageReader,     \* line 110
    read,              \* line 134
    uncompressed,      \* the gzip reader (line 142): "nil", "open", "closed"
    deferred,          \* whether line 146 registered the Close
    closes,            \* how often the gzip reader was closed
    out,               \* the buffer decrypt returns
    err,               \* the error decrypt returns
    ret,               \* the error dataSourceDecryptRead returns
    id,                \* d.SetId (line 83)
    plaintext,         \* d.Set("plaintext", ...) (line 84)
    log,               \* the library calls made, in order
    stage              \* the stage of section 4.3 the call is in

vars == <<pc, d, keyBlock, privateKeyPacket, ciphertext, msgBlock, messageReader,
          read, uncompressed, deferred, closes, out, err, ret, id, plaintext,
          log, stage>>

\* A return value not produced yet.
Pending == [msg |-> "pending", cause |-> ""]

Init ==
    /\ pc = [c \in Calls |-> "idle"]
    /\ d = [c \in Calls |-> NoData]
    /\ keyBlock = [c \in Calls |-> NoBlock]
    /\ privateKeyPacket = [c \in Calls |-> NoEntity]
    /\ ciphertext = [c \in Calls |-> NoBuf]
    /\ msgBlock = [c \in Calls |-> NoBlock]
    /\ messageReader = [c \in Calls |-> NoMessage]
    /\ read = [c \in Calls |-> NoBytes]
    /\ uncompressed = [c \in Calls |-> "nil"]
    /\ deferred = [c \in Calls |-> FALSE]
    /\ closes = [c \in Calls |-> 0]
    /\ out = [c \in Calls |-> NoBytes]
    /\ err = [c \in Calls |-> Pending]
    /\ ret = [c \in Calls |-> Pending]
    /\ id = [c \in Calls |-> NoId]
    /\ plaintext = [c \in Calls |-> NoBytes]
    /\ log = [c \in Calls |-> <<>>]
    /\ stage = [c \in Calls |-> "Idle"]

\* ------------------------------------------------- the decisions of the code
\* Variants of the decisions below, each a slip the code could have made.
IsPrivateKeyTypePublic(t) == t = PublicKeyType
IsPrivateKeyTypeAny(t) == TRUE
IsBase64Never(encoding) == FALSE
IsMessageTypeAny(t) == TRUE
NeedsGunzipAlways(encoding) == TRUE
EntityListCached(c) ==
    <<privateKeyPacket[CHOOSE x \in Calls :
          \A y \in Calls : privateKeyPacket[y] # NoEntity => privateKeyPacket[x] # NoEntity /\ x <= y]>>
RegistersCloseNever(e) == FALSE
DrainFailedPartial(partial) == partial

\* line 98
IsPrivateKeyType(t) == t = PrivateKeyType
\* line 67
IsBase64(encoding) == encoding = "base64"
\* line 113
IsArmored(encoding) == encoding = "armored"
\* line 119
IsMessageType(t) == t = MessageType
\* line 139
NeedsGunzip(encoding) == encoding = "armored"
\* line 108: the key ring is the entity this call was handed, and nothing else
EntityList(c) == <<privateKeyPacket[c]>>
\* lines 143..146: the Close is deferred once the reader exists
RegistersClose(e) == e = ErrNil
\* line 150: what decrypt returns beside the error of a failed gzip drain
DrainFailed(partial) == Empty

\* Helpers of the actions: a call leaves dataSourceDecryptRead with error e,
\* and decrypt returns (b, e).
Called(c, op) == log' = [log EXCEPT ![c] = Append(@, op)]

ReadFails(c, e) ==
    /\ ret' = [ret EXCEPT ![c] = e]
    /\ pc' = [pc EXCEPT ![c] = "done"]
    /\ stage' = [stage EXCEPT ![c] = "Error"]

DecryptFails(c, e) ==
    /\ out' = [out EXCEPT ![c] = Empty]
    /\ err' = [err EXCEPT ![c] = e]
    /\ pc' = [pc EXCEPT ![c] = "decryptRet"]
    /\ stage' = [stage EXCEPT ![c] = "Error"]

\* ------------------------------------------------- dataSourceDecryptRead
\* The provider's Read is called with attributes out of the set S (lines
\* 56..57).
Invoke(c, S) ==
    /\ pc[c] = "idle"
    /\ \E i \in S : d' = [d EXCEPT ![c] = i]
    /\ pc' = [pc EXCEPT ![c] = "keyDecode"]
    /\ UNCHANGED <<keyBlock, privateKeyPacket, ciphertext, msgBlock, messageReader,
                   read, uncompressed, deferred, closes, out, err, ret, id,
                   plaintext, log, stage>>

\* getPrivateKeyPacket, lines 92..96 (and 60..62 on the error).
KeyArmorDecode(c) ==
    /\ pc[c] = "keyDecode"
    /\ Called(c, "armor.Decode(key)")
    /\ LET r == ArmorDecode(d[c].private_key) IN
         IF r.err # ErrNil
         THEN /\ ReadFails(c, r.err)
              /\ UNCHANGED keyBlock
         ELSE /\ keyBlock' = [keyBlock EXCEPT ![c] = r.block]
              /\ pc' = [pc EXCEPT ![c] = "keyType"]
              /\ UNCHANGED <<ret, stage>>
    /\ UNCHANGED <<d, privateKeyPacket, ciphertext, msgBlock, messageReader, read,
                   uncompressed, deferred, closes, out, err, id, plaintext>>

\* getPrivateKeyPacket, lines 98..100.
KeyTypeCheck(c) ==
    /\ pc[c] = "keyType"
    /\ Called(c, "block.Type(key)")
    /\ IF ~IsPrivateKeyType(keyBlock[c].Type)
       THEN ReadFails(c, ErrorsNew("Invalid private key data"))
       ELSE /\ pc' = [pc EXCEPT ![c] = "keyParse"]
            /\ UNCHANGED <<ret, stage>>
    /\ UNCHANGED <<d, keyBlock, privateKeyPacket, ciphertext, msgBlock, messageReader,
                   read, uncompressed, deferred, closes, out, err, id, plaintext>>

\* KeyReadEntity with the return of line 61 left out: the error is kept and
\* the call goes on.
KeyReadEntityFallthrough(c) ==
    /\ pc[c] = "keyParse"
    /\ Called(c, "openpgp.ReadEntity")
    /\ LET r == ReadEntity(keyBlock[c].Body) IN
         /\ privateKeyPacket' = [privateKeyPacket EXCEPT ![c] = r.entity]
         /\ ret' = [ret EXCEPT ![c] = IF r.err # ErrNil THEN r.err ELSE @]
    /\ pc' = [pc EXCEPT ![c] = "encoding"]
    /\ stage' = [stage EXCEPT ![c] = "KeyLoaded"]
    /\ UNCHANGED <<d, keyBlock, ciphertext, msgBlock, messageReader, read,
                   uncompressed, deferred, closes, out, err, id, plaintext>>

\* getPrivateKeyPacket, lines 102..103, and lines 59..62.
KeyReadEntity(c) ==
    /\ pc[c] = "keyParse"
    /\ Called(c, "openpgp.ReadEntity")
    /\ LET r == ReadEntity(keyBlock[c].Body) IN
         IF r.err # ErrNil
         THEN /\ ReadFails(c, r.err)
              /\ UNCHANGED privateKeyPacket
         ELSE /\ privateKeyPacket' = [privateKeyPacket EXCEPT ![c] = r.entity]
              /\ pc' = [pc EXCEPT ![c] = "encoding"]
              /\ stage' = [stage EXCEPT ![c] = "KeyLoaded"]
              /\ UNCHANGED ret
    /\ UNCHANGED <<d, keyBlock, ciphertext, msgBlock, messageReader, read,
                   uncompressed, deferred, closes, out, err, id, plaintext>>

\* Lines 64..75: the outer base64 layer is taken off, and decrypt is called.
DecodeCiphertext(c) ==
    /\ pc[c] = "encoding"
    /\ LET encoding == d[c].ciphertext_encoding
           r == Base64Decode(d[c].ciphertext)
           enter == IF IsArmored(encoding) THEN "msgDecode" ELSE "readMsg"
       IN
         IF IsBase64(encoding)
         THEN IF r.err # ErrNil
              THEN /\ Called(c, "base64.Decode")
                   /\ ReadFails(c, Wrapf("unable to decode", r.err))
                   /\ UNCHANGED ciphertext
              ELSE /\ log' = [log EXCEPT ![c] = @ \o <<"base64.Decode", "decrypt">>]
                   /\ ciphertext' = [ciphertext EXCEPT ![c] = r.data]
                   /\ pc' = [pc EXCEPT ![c] = enter]
                   /\ stage' = [stage EXCEPT ![c] =
                                   IF IsArmored(encoding) THEN @ ELSE "StreamNormalized"]
                   /\ UNCHANGED ret
         ELSE /\ Called(c, "decrypt")
              /\ ciphertext' = [ciphertext EXCEPT ![c] = d[c].ciphertext]
              /\ pc' = [pc EXCEPT ![c] = enter]
              /\ stage' = [stage EXCEPT ![c] =
                              IF IsArmored(encoding) THEN @ ELSE "StreamNormalized"]
              /\ UNCHANGED ret
    /\ UNCHANGED <<d, keyBlock, privateKeyPacket, msgBlock, messageReader, read,
                   uncompressed, deferred, closes, out, err, id, plaintext>>

\* ------------------------------------------------------------------ decrypt
\* Lines 115..118.
MsgArmorDecode(c) ==
    /\ pc[c] = "msgDecode"
    /\ Called(c, "armor.Decode(msg)")
    /\ LET r == ArmorDecode(ciphertext[c]) IN
         IF r.err # ErrNil
         THEN /\ DecryptFails(c, Wrapf("Error decoding", r.err))
              /\ UNCHANGED msgBlock
         ELSE /\ msgBlock' = [msgBlock EXCEPT ![c] = r.block]
              /\ pc' = [pc EXCEPT ![c] = "msgType"]
              /\ UNCHANGED <<out, err, stage>>
    /\ UNCHANGED <<d, keyBlock, privateKeyPacket, ciphertext, messageReader, read,
                   uncompressed, deferred, closes, ret, id, plaintext>>

\* Lines 119..121.
MsgTypeCheck(c) ==
    /\ pc[c] = "msgType"
    /\ Called(c, "block.Type(msg)")
    /\ IF ~IsMessageType(msgBlock[c].Type)
       THEN DecryptFails(c, ErrorsNew("Invalid message type"))
       ELSE /\ pc' = [pc EXCEPT ![c] = "readMsg"]
            /\ stage' = [stage EXCEPT ![c] = "StreamNormalized"]
            /\ UNCHANGED <<out, err>>
    /\ UNCHANGED <<d, keyBlock, privateKeyPacket, ciphertext, msgBlock, messageReader,
                   read, uncompressed, deferred, closes, ret, id, plaintext>>

\* Lines 123..126 (armored) and 128..131 (otherwise).
ReadMsg(c) ==
    /\ pc[c] = "readMsg"
    /\ Called(c, "openpgp.ReadMessage")
    /\ LET stream == IF IsArmored(d[c].ciphertext_encoding)
                     THEN msgBlock[c].Body
                     ELSE BytesReader(ciphertext[c])
           r == ReadMessage(stream, EntityList(c))
       IN
         IF r.err # ErrNil
         THEN /\ DecryptFails(c, Wrapf("Error reading message", r.err))
              /\ UNCHANGED messageReader
         ELSE /\ messageReader' = [messageReader EXCEPT ![c] = r.md]
              /\ pc' = [pc EXCEPT ![c] = "readBody"]
              /\ UNCHANGED <<out, err, stage>>
    /\ UNCHANGED <<d, keyBlock, privateKeyPacket, ciphertext, msgBlock, read,
                   uncompressed, deferred, closes, ret, id, plaintext>>

\* Lines 134..139.
ReadBody(c) ==
    /\ pc[c] = "readBody"
    /\ Called(c, "ReadAll(UnverifiedBody)")
    /\ LET r == ReadAllBody(messageReader[c].UnverifiedBody) IN
         IF r.err # ErrNil
         THEN /\ DecryptFails(c, Wrapf("Error reading unverified body", r.err))
              /\ UNCHANGED read
         ELSE /\ read' = [read EXCEPT ![c] = r.data]
              /\ pc' = [pc EXCEPT ![c] =
                           IF NeedsGunzip(d[c].ciphertext_encoding)
                           THEN "gzInit" ELSE "rawCopy"]
              /\ stage' = [stage EXCEPT ![c] = "Decrypted"]
              /\ UNCHANGED <<out, err>>
    /\ UNCHANGED <<d, keyBlock, privateKeyPacket, ciphertext, msgBlock, messageReader,
                   uncompressed, deferred, closes, ret, id, plaintext>>

\* Lines 141..146.
GzipInit(c) ==
    /\ pc[c] = "gzInit"
    /\ Called(c, "gzip.NewReader")
    /\ LET e == GzipNewReader(read[c]) IN
         /\ deferred' = [deferred EXCEPT ![c] = RegistersClose(e)]
         /\ IF e # ErrNil
            THEN /\ DecryptFails(c, Wrapf("Error initializing gzip reader", e))
                 /\ UNCHANGED uncompressed
            ELSE /\ uncompressed' = [uncompressed EXCEPT ![c] = "open"]
                 /\ pc' = [pc EXCEPT ![c] = "gzDrain"]
                 /\ UNCHANGED <<out, err, stage>>
    /\ UNCHANGED <<d, keyBlock, privateKeyPacket, ciphertext, msgBlock, messageReader,
                   read, closes, ret, id, plaintext>>

\* Lines 148..154.
GzipDrain(c) ==
    /\ pc[c] = "gzDrain"
    /\ Called(c, "ReadAll(gzip)")
    /\ LET r == GzipReadAll(read[c]) IN
         IF r.err # ErrNil
         THEN /\ out' = [out EXCEPT ![c] = DrainFailed(r.data)]
              /\ err' = [err EXCEPT ![c] = r.err]
              /\ stage' = [stage EXCEPT ![c] = "Error"]
         ELSE /\ out' = [out EXCEPT ![c] = r.data]
              /\ err' = [err EXCEPT ![c] = ErrNil]
              /\ stage' = [stage EXCEPT ![c] = "Decompressed"]
    /\ pc' = [pc EXCEPT ![c] = "decryptRet"]
    /\ UNCHANGED <<d, keyBlock, privateKeyPacket, ciphertext, msgBlock, messageReader,
                   read, uncompressed, deferred, closes, ret, id, plaintext>>

\* Lines 157..163: reading a byte slice back never fails.
RawCopy(c) ==
    /\ pc[c] = "rawCopy"
    /\ Called(c, "ReadAll(bytes)")
    /\ out' = [out EXCEPT ![c] = read[c]]
    /\ err' = [err EXCEPT ![c] = ErrNil]
    /\ stage' = [stage EXCEPT ![c] = "Done"]
    /\ pc' = [pc EXCEPT ![c] = "decryptRet"]
    /\ UNCHANGED <<d, keyBlock, privateKeyPacket, ciphertext, msgBlock, messageReader,
                   read, uncompressed, deferred, closes, ret, id, plaintext>>

\* decrypt returns: the deferred call of line 146 runs.
DecryptReturn(c) ==
    /\ pc[c] = "decryptRet"
    /\ IF deferred[c]
       THEN /\ uncompressed' = [uncompressed EXCEPT ![c] = "closed"]
            /\ closes' = [closes EXCEPT ![c] = @ + 1]
            /\ Called(c, "gzip.Close")
       ELSE UNCHANGED <<uncompressed, closes, log>>
    /\ pc' = [pc EXCEPT ![c] = "afterDecrypt"]
    /\ UNCHANGED <<d, keyBlock, privateKeyPacket, ciphertext, msgBlock, messageReader,
                   read, deferred, out, err, ret, id, plaintext, stage>>

\* Lines 75..86.
ReadFinish(c) ==
    /\ pc[c] = "afterDecrypt"
    /\ IF err[c] # ErrNil
       THEN /\ ret' = [ret EXCEPT ![c] = err[c]]
            /\ UNCHANGED <<id, plaintext>>
       ELSE /\ id' = [id EXCEPT ![c] = Sha256Hex(out[c])]
            /\ plaintext' = [plaintext EXCEPT ![c] = out[c]]
            /\ ret' = [ret EXCEPT ![c] = ErrNil]
    /\ pc' = [pc EXCEPT ![c] = "done"]
    /\ UNCHANGED <<d, keyBlock, privateKeyPacket, ciphertext, msgBlock, messageReader,
                   read, uncompressed, deferred, closes, out, err, log, stage>>

Step(c) ==
    \/ KeyArmorDecode(c)
    \/ KeyTypeCheck(c)
    \/ KeyReadEntity(c)
    \/ DecodeCiphertext(c)
    \/ MsgArmorDecode(c)
    \/ MsgTypeCheck(c)
    \/ ReadMsg(c)
    \/ ReadBody(c)
    \/ GzipInit(c)
    \/ GzipDrain(c)
    \/ RawCopy(c)
    \/ DecryptReturn(c)
    \/ ReadFinish(c)

\* One call, over every input.
Next ==
    \/ Invoke(1, ResourceData)
    \/ Step(1)

Spec == Init /\ [][Next]_vars

\* Calls in flight together, their steps interleaved in any order, each over
\* a few inputs that succeed and fail in both modes with different keys.
PrivateKeyOf(k) ==
    ArmorText(PrivateKeyType, "ok",
              [kind |-> "key", key |-> k, prot |-> FALSE, st |-> "ok", pay |-> Empty])

Encrypt(k, b) == [kind |-> "msg", key |-> k, prot |-> FALSE, st |-> "ok", pay |-> b]

ConcInputs ==
    {[private_key |-> PrivateKeyOf(k), ciphertext |-> m[1], ciphertext_encoding |-> m[2]] :
        k \in {1, 2},
        m \in {<<ArmorText(MessageType, "ok", Encrypt(1, [gz |-> "ok", p |-> 1])), "armored">>,
               <<ArmorText(MessageType, "ok", Encrypt(1, [gz |-> "badbody", p |-> 1])), "armored">>,
               <<B64Text(Encrypt(2, Lit(1))), "base64">>}}

NextConc ==
    \E c \in Calls : Invoke(c, ConcInputs) \/ Step(c)

SpecConc == Init /\ [][NextConc]_vars

\* ----------------------------------------- the functions, run start to end
\* What the three functions return when nothing else runs: the reference the
\* interleaved calls are compared with.
getPrivateKeyPacket(privateKey) ==
    LET r == ArmorDecode(privateKey) IN
      IF r.err # ErrNil
      THEN [entity |-> NoEntity, err |-> r.err]
      ELSE IF ~IsPrivateKeyType(r.block.Type)
      THEN [entity |-> NoEntity, err |-> ErrorsNew("Invalid private key data")]
      ELSE ReadEntity(r.block.Body)

decrypt(entity, encrypted, encoding) ==
    LET a  == ArmorDecode(encrypted)
        stream == IF IsArmored(encoding) THEN a.block.Body ELSE BytesReader(encrypted)
        m  == ReadMessage(stream, <<entity>>)
        b  == ReadAllBody(m.md.UnverifiedBody)
        g  == GzipNewReader(b.data)
        u  == GzipReadAll(b.data)
        fail(e) == [out |-> Empty, err |-> e]
    IN
      IF IsArmored(encoding) /\ a.err # ErrNil
      THEN fail(Wrapf("Error decoding", a.err))
      ELSE IF IsArmored(encoding) /\ ~IsMessageType(a.block.Type)
      THEN fail(ErrorsNew("Invalid message type"))
      ELSE IF m.err # ErrNil
      THEN fail(Wrapf("Error reading message", m.err))
      ELSE IF b.err # ErrNil
      THEN fail(Wrapf("Error reading unverified body", b.err))
      ELSE IF ~NeedsGunzip(encoding)
      THEN [out |-> b.data, err |-> ErrNil]
      ELSE IF g # ErrNil
      THEN fail(Wrapf("Error initializing gzip reader", g))
      ELSE IF u.err # ErrNil
      THEN [out |-> DrainFailed(u.data), err |-> u.err]
      ELSE [out |-> u.data, err |-> ErrNil]

dataSourceDecryptRead(i) ==
    LET k == getPrivateKeyPacket(i.private_key)
        b == Base64Decode(i.ciphertext)
        x == decrypt(k.entity,
                     IF IsBase64(i.ciphertext_encoding) THEN b.data ELSE i.ciphertext,
                     i.ciphertext_encoding)
        fail(e) == [ret |-> e, id |-> NoId, plaintext |-> NoBytes]
    IN
      IF k.err # ErrNil
      THEN fail(k.err)
      ELSE IF IsBase64(i.ciphertext_encoding) /\ b.err # ErrNil
      THEN fail(Wrapf("unable to decode", b.err))
      ELSE IF x.err # ErrNil
      THEN fail(x.err)
      ELSE [ret |-> ErrNil, id |-> Sha256Hex(x.out), plaintext |-> x.out]

\* ------------------------------------------------------------------ claims
InLog(c, op) == \E k \in 1..Len(log[c]) : log[c][k] = op
Before(c, a, b) ==
    \A k \in 1..Len(log[c]) : log[c][k] = b => \E j \in 1..(k - 1) : log[c][j] = a
Returned(c) == pc[c] \in {"afterDecrypt", "done"}
Drained(c) == read[c] # NoBytes
Gzip(P) == [gz |-> "ok", p |-> P]
ArmorEncode(t, x) == ArmorText(t, "ok", x)

\* C1: once the unverified body is drained, gzip is run if and only if the
\* mode is armored: armored returns the gunzip of the drained bytes, never
\* the drained bytes; base64 returns the drained bytes as they are and never
\* touches gzip, also when they are a gzip stream.
C1_GunzipIffArmored ==
    \A c \in Calls :
      (Drained(c) /\ Returned(c)) =>
        IF d[c].ciphertext_encoding = "armored"
        THEN /\ InLog(c, "gzip.NewReader")
             /\ ~InLog(c, "ReadAll(bytes)")
             /\ err[c] = ErrNil =>
                  /\ InLog(c, "ReadAll(gzip)")
                  /\ read[c].gz = "ok"
                  /\ out[c] = Lit(read[c].p)
                  /\ out[c] # read[c]
        ELSE /\ ~InLog(c, "gzip.NewReader")
             /\ ~InLog(c, "ReadAll(gzip)")
             /\ err[c] = ErrNil
             /\ out[c] = read[c]

C1_Witness ==
    \E c \in Calls :
      /\ pc[c] = "done"
      /\ d[c].ciphertext_encoding = "base64"
      /\ read[c].gz = "ok"
      /\ plaintext[c] = read[c]

\* C2: gzip P, encrypt to K's public key, armor as a "Message" block, load
\* K's unprotected armored private key, decrypt in armored mode: P comes
\* back, with no error.
C2_ArmoredRoundTrip ==
    \A c \in Calls : \A P \in Plain : \A k \in Keys :
      (/\ pc[c] = "done"
       /\ d[c] = [private_key |-> PrivateKeyOf(k),
                  ciphertext |-> ArmorEncode(MessageType, Encrypt(k, Gzip(P))),
                  ciphertext_encoding |-> "armored"])
        => /\ ret[c] = ErrNil
           /\ plaintext[c] = Lit(P)
           /\ id[c] = Sha256Hex(Lit(P))

C2_Witness ==
    \E c \in Calls :
      /\ pc[c] = "done"
      /\ d[c] = [private_key |-> PrivateKeyOf(NumKeys),
                 ciphertext |-> ArmorEncode(MessageType, Encrypt(NumKeys, Gzip(MaxPlain))),
                 ciphertext_encoding |-> "armored"]
      /\ plaintext[c] = Lit(MaxPlain)

\* C3: a failed stage gives a non-nil error and an empty buffer from decrypt,
\* and dataSourceDecryptRead returns that error with neither the id nor the
\* plaintext set; a plaintext is only delivered with a nil error.
C3_NoPartialResult ==
    \A c \in Calls :
      /\ (err[c] # Pending /\ err[c] # ErrNil) => out[c] = Empty
      /\ (stage[c] = "Error" /\ InLog(c, "decrypt")) =>
            /\ err[c] # ErrNil /\ err[c] # Pending
            /\ out[c] = Empty
      /\ (pc[c] = "done" /\ stage[c] = "Error") =>
            /\ ret[c] # ErrNil /\ ret[c] # Pending
            /\ InLog(c, "decrypt") => ret[c] = err[c]
      /\ (ret[c] # ErrNil) => (id[c] = NoId /\ plaintext[c] = NoBytes)
      /\ (plaintext[c] # NoBytes \/ id[c] # NoId) =>
            /\ ret[c] = ErrNil /\ err[c] = ErrNil
            /\ plaintext[c] = out[c]

C3_Witness ==
    \E c \in Calls :
      /\ pc[c] = "done"
      /\ read[c] = [gz |-> "badbody", p |-> MaxPlain]
      /\ InLog(c, "ReadAll(gzip)")
      /\ ret[c] # ErrNil
      /\ out[c] = Empty

\* C4: the stages are passed in the order Idle, KeyLoaded, StreamNormalized,
\* Decrypted, then Decompressed or Done; a step moves a call one stage on or
\* to the error state, never back and never out of a final state; an error
\* puts the call in the error state, after which no library call is made
\* but the deferred Close, and no library call is made twice.
Rank(s) ==
    CASE s = "Idle" -> 0
      [] s = "KeyLoaded" -> 1
      [] s = "StreamNormalized" -> 2
      [] s = "Decrypted" -> 3
      [] s \in {"Decompressed", "Done"} -> 4
      [] OTHER -> 5

FinalStage(s) == s \in {"Decompressed", "Done", "Error"}

C4_StageStep(c) ==
    /\ stage'[c] # stage[c] =>
         /\ ~FinalStage(stage[c])
         /\ \/ stage'[c] = "Error"
            \/ Rank(stage'[c]) = Rank(stage[c]) + 1
    /\ stage'[c] = "Decompressed" => d[c].ciphertext_encoding = "armored"
    /\ stage'[c] = "Done" => d[c].ciphertext_encoding # "armored"
    /\ \A e \in {ret'[c], err'[c]} : (e # Pending /\ e # ErrNil) => stage'[c] = "Error"
    /\ stage[c] = "Error" =>
         \/ log'[c] = log[c]
         \/ log'[c] = Append(log[c], "gzip.Close")
    /\ \A j, k \in 1..Len(log'[c]) : log'[c][j] = log'[c][k] => j = k
    /\ pc[c] = "done" => pc'[c] = "done"

C4_LinearStages == [][\A c \in Calls : C4_StageStep(c)]_vars

C4_Witness ==
    \E c \in Calls :
      /\ pc[c] = "done"
      /\ stage[c] = "Error"
      /\ InLog(c, "openpgp.ReadMessage")
      /\ ~InLog(c, "ReadAll(UnverifiedBody)")

\* C5: the error a call returns carries the class of the stage that failed:
\* ArmorDecodeError, InvalidKeyTypeError, KeyParseError,
\* InvalidMessageTypeError, MessageReadError, BodyReadError,
\* DecompressionInitError, DecompressionReadError; no failure is reported
\* without a class, nor two of different kinds as the same.
\* The class an error value shows: the text the code put in front of it.
ClassShown(e) ==
    CASE e.msg = "Error decoding" -> "ArmorDecodeError"
      [] e.msg = "Invalid private key data" -> "InvalidKeyTypeError"
      [] e.msg = "Invalid message type" -> "InvalidMessageTypeError"
      [] e.msg = "Error reading message" -> "MessageReadError"
      [] e.msg = "Error reading unverified body" -> "BodyReadError"
      [] e.msg = "Error initializing gzip reader" -> "DecompressionInitError"
      [] e.msg = "unable to decode" -> "Base64DecodeError"
      [] OTHER -> "none"

ClassOfStage(op) ==
    CASE op \in {"armor.Decode(key)", "armor.Decode(msg)"} -> "ArmorDecodeError"
      [] op = "block.Type(key)" -> "InvalidKeyTypeError"
      [] op = "openpgp.ReadEntity" -> "KeyParseError"
      [] op = "block.Type(msg)" -> "InvalidMessageTypeError"
      [] op = "openpgp.ReadMessage" -> "MessageReadError"
      [] op = "ReadAll(UnverifiedBody)" -> "BodyReadError"
      [] op = "gzip.NewReader" -> "DecompressionInitError"
      [] op = "ReadAll(gzip)" -> "DecompressionReadError"
      [] OTHER -> "Base64DecodeError"

\* The library call that failed: the last one made, the Close aside.
FailedOp(c) ==
    LET l == SelectSeq(log[c], LAMBDA op : op # "gzip.Close") IN l[Len(l)]

C5_ErrorsClassified ==
    \A c \in Calls :
      (pc[c] = "done" /\ ret[c] # ErrNil) => ClassShown(ret[c]) = ClassOfStage(FailedOp(c))

\* C6: getPrivateKeyPacket gives an entity only for input that armor.Decode
\* accepts and whose block is labelled as a private key; input it rejects
\* fails with its error before the label is looked at; a block with another
\* label fails as invalid key data, its packets never parsed.
KeyLoadOver(c) == pc[c] \notin {"idle", "keyDecode", "keyType", "keyParse"}

MalformedArmor(b) == b.form # "armor" \/ b.framing # "ok"

C7_MalformedArmorRejected ==
    \A c \in Calls :
      (d[c].ciphertext_encoding = "armored" /\ Returned(c) /\ InLog(c, "decrypt")) =>
        /\ InLog(c, "openpgp.ReadMessage") =>
             /\ ~MalformedArmor(d[c].ciphertext)
             /\ d[c].ciphertext.type = MessageType
        /\ MalformedArmor(d[c].ciphertext) =>
             /\ ClassShown(err[c]) = "ArmorDecodeError"
             /\ ~InLog(c, "openpgp.ReadMessage")
        /\ (~MalformedArmor(d[c].ciphertext) /\ d[c].ciphertext.type # MessageType) =>
             /\ ClassShown(err[c]) = "InvalidMessageTypeError"
             /\ ~InLog(c, "openpgp.ReadMessage")

\* C7 as amended: in armored mode the message reader is called only for
\* input in which armor.Decode finds a block, labelled "Message", and it is
\* given that block's body; input with no block fails with the armor-decode
\* error and a block with another label with the invalid-message-type error,
\* both before the message reader is called; a "Message" block whose end
\* marker is missing is not rejected by the armor decoding: its body goes to
\* the message reader.
C7_ArmorGate ==
    \A c \in Calls :
      (d[c].ciphertext_encoding = "armored" /\ Returned(c) /\ InLog(c, "decrypt")) =>
        LET m == d[c].ciphertext IN
          /\ InLog(c, "openpgp.ReadMessage") =>
               /\ m.form = "armor" /\ m.type = MessageType
               /\ msgBlock[c].Type = MessageType
               /\ msgBlock[c].Body.data = m.data
               /\ Before(c, "block.Type(msg)", "openpgp.ReadMessage")
          /\ m.form # "armor" =>
               /\ err[c] = Wrapf("Error decoding", LibErr("EOF"))
               /\ ~InLog(c, "block.Type(msg)")
               /\ ~InLog(c, "openpgp.ReadMessage")
          /\ (m.form = "armor" /\ m.type # MessageType) =>
               /\ err[c] = ErrorsNew("Invalid message type")
               /\ ~InLog(c, "openpgp.ReadMessage")
          /\ (m.form = "armor" /\ m.type = MessageType) =>
               /\ InLog(c, "openpgp.ReadMessage")
               /\ ClassShown(err[c]) \notin {"ArmorDecodeError", "InvalidMessageTypeError"}

C7_Witness ==
    \E c \in Calls :
      /\ pc[c] = "done"
      /\ d[c].ciphertext_encoding = "armored"
      /\ d[c].ciphertext.form = "armor"
      /\ d[c].ciphertext.framing = "noend"
      /\ d[c].ciphertext.type = MessageType
      /\ InLog(c, "openpgp.ReadMessage")

\* C8: the gzip reader is closed exactly once before decrypt returns on
\* every path that created it, whether the drain succeeded or failed; it is
\* never closed when it was not created; no returned call leaves it open.
C8_ReaderClosedOnce ==
    \A c \in Calls :
      /\ closes[c] <= 1
      /\ uncompressed[c] = "nil" <=> ~(InLog(c, "gzip.NewReader") /\ GzipNewReader(read[c]) = ErrNil)
      /\ uncompressed[c] = "nil" => closes[c] = 0
      /\ uncompressed[c] = "closed" <=> closes[c] = 1
      /\ Returned(c) => uncompressed[c] # "open"
      /\ (Returned(c) /\ InLog(c, "ReadAll(gzip)")) => closes[c] = 1
      /\ d[c].ciphertext_encoding # "armored" => uncompressed[c] = "nil"
      /\ closes[c] = 1 => Before(c, "ReadAll(gzip)", "gzip.Close")

C8_Witness ==
    \E c \in Calls :
      /\ pc[c] = "done"
      /\ InLog(c, "ReadAll(gzip)")
      /\ ret[c] # ErrNil
      /\ closes[c] = 1
      /\ uncompressed[c] = "closed"

\* C9: with calls interleaved in any order, what a call returns and sets is
\* what the same attributes give when the call runs alone.
C9_Independent ==
    \A c \in Calls :
      pc[c] = "done" =>
        [ret |-> ret[c], id |-> id[c], plaintext |-> plaintext[c]] = dataSourceDecryptRead(d[c])

C9_Witness ==
    /\ pc[1] = "done"
    /\ pc[2] = "done"
    /\ d[1].private_key # d[2].private_key
    /\ ret[1] # ErrNil
    /\ ret[2] = ErrNil
    /\ plaintext[2] = Lit(1)

\* C10: decrypt is given the base64 decoding of the ciphertext attribute when
\* ciphertext_encoding is "base64" and the attribute as it is otherwise; the
\* decoding comes after the key has loaded; when it fails the call ends with
\* the decode error and decrypt is not called; a bad key is reported before
\* bad base64.
C10_Base64Layer ==
    \A c \in Calls :
      LET i == d[c] IN
        /\ InLog(c, "decrypt") =>
             /\ i.ciphertext_encoding = "base64" =>
                  /\ i.ciphertext.form = "b64"
                  /\ ciphertext[c] = Bin(i.ciphertext.data)
                  /\ Before(c, "base64.Decode", "decrypt")
             /\ i.ciphertext_encoding # "base64" =>
                  /\ ciphertext[c] = i.ciphertext
                  /\ ~InLog(c, "base64.Decode")
        /\ InLog(c, "base64.Decode") =>
             /\ i.ciphertext_encoding = "base64"
             /\ privateKeyPacket[c] # NoEntity
             /\ Before(c, "openpgp.ReadEntity", "base64.Decode")
        /\ (KeyLoadOver(c) /\ pc[c] # "encoding" /\ i.ciphertext_encoding = "base64"
              /\ i.ciphertext.form # "b64") =>
             /\ pc[c] = "done"
             /\ ~InLog(c, "decrypt")
             /\ IF privateKeyPacket[c] # NoEntity
                THEN ret[c] = Wrapf("unable to decode", LibErr("CorruptInputError"))
                ELSE ClassShown(ret[c]) # "Base64DecodeError" /\ ~InLog(c, "base64.Decode")

C10_Witness ==
    \E c \in Calls :
      /\ pc[c] = "done"
      /\ d[c].ciphertext_encoding = "base64"
      /\ InLog(c, "decrypt")
      /\ ciphertext[c] = Bin(d[c].ciphertext.data)
      /\ ret[c] = ErrNil

====
